---- MODULE Spec2Model ----
(***************************************************************************)
(* Bootstrap orchestrator of the Qwen Code CLI: main() of                  *)
(* packages/cli/src/gemini.tsx, with the helpers it defines                *)
(* (getNodeMemoryArgs, injectStdinIntoArgs) and the relaunch protocol of   *)
(* utils/relaunch.ts that it drives.                                       *)
(*                                                                         *)
(* main() is one sequential async function; pc is its position.  Values    *)
(* the program reads from its environment (settings, parsed arguments,     *)
(* outcomes of collaborators, child exit codes) are chosen with \E at the  *)
(* step that reads them.  trace records the observable calls in order.     *)
(***************************************************************************)
EXTENDS Integers, Sequences, FiniteSets, TLC

(***************************************************************************)
(* Bounds of the model.                                                    *)
(***************************************************************************)
\* longest argument vector drawn for injectStdinIntoArgs
MaxArgs == 3
\* most times a child asks to be relaunched before it exits for good
MaxRelaunch == 2
\* memory sizes are drawn in steps of 1/MemGranularity megabyte
MemGranularity == 4
\* small memory sizes 0..MaxMemMB megabytes are drawn exhaustively
MaxMemMB == 3
\* most SIGINT and SIGTERM deliveries in a run
MaxSignals == 1
\* most unhandled promise rejections in a run
MaxRejections == 4

(***************************************************************************)
(* Value sets the inputs are drawn from.                                   *)
(***************************************************************************)
ArgTokens == {"--prompt", "-p", "hi", "other"}
ArgVectors == UNION {[1..n -> ArgTokens] : n \in 0..MaxArgs}
\* argument vectors of a run of main(): one of each shape the injector tells apart
MainArgVectors == {<<>>, <<"other">>, <<"--prompt", "hi">>, <<"other", "-p">>}
StdinTexts == {"", "ctx"}
Questions == {"", "hello"}
MB(n) == n * MemGranularity
TotalMemValues == (0..MB(MaxMemMB)) \cup {MB(8192), MB(16384), MB(16384) + 1}
HeapLimitValues == (0..MB(MaxMemMB)) \cup {MB(4096), MB(4096) + 1}
MainTotalMemValues == {MB(8192), MB(16384)}
MainHeapLimitValues == {MB(4096)}

\* an optional string of the settings: undefined, or defined with a value
Undefined == [defined |-> FALSE, value |-> ""]
Defined(v) == [defined |-> TRUE, value |-> v]
DnsFragments ==
  {"", "ipv4first", "verbatim", "ipv6first", "bogus", "IPV4FIRST", " ", "first"}
DnsOrders ==
  {Undefined} \cup {Defined(a \o b) : a \in DnsFragments, b \in DnsFragments}
MainDnsOrders == {Undefined, Defined("bogus")}

\* Rejection reasons: a plain value, an Error without and with a stack, and
\* an object that is no Error but has a stack property.
RejectionReasons ==
  {[text |-> "timeout", isError |-> FALSE, stack |-> ""],
   [text |-> "Error: boom", isError |-> TRUE, stack |-> ""],
   [text |-> "Error: boom", isError |-> TRUE, stack |-> "at main"],
   [text |-> "[object Object]", isError |-> FALSE, stack |-> "at main"]}

\* The reserved exit code by which a child asks its parent to respawn it.
RELAUNCH_EXIT_CODE == 42
ExitCodes == {0, 1, 5, RELAUNCH_EXIT_CODE}

(***************************************************************************)
(* validateDnsResolutionOrder (gemini.tsx:71-86): the order it returns and *)
(* whether it warned.                                                      *)
(***************************************************************************)
validateDnsResolutionOrder_KeepsInvalid(order) ==
  IF ~order.defined
  THEN [result |-> "ipv4first", warned |-> FALSE]
  ELSE IF order.value = "ipv4first" \/ order.value = "verbatim"
       THEN [result |-> order.value, warned |-> FALSE]
       ELSE [result |-> order.value, warned |-> TRUE]

validateDnsResolutionOrder(order) ==
  IF ~order.defined
  THEN [result |-> "ipv4first", warned |-> FALSE]
  ELSE IF order.value = "ipv4first" \/ order.value = "verbatim"
       THEN [result |-> order.value, warned |-> FALSE]
       ELSE [result |-> "ipv4first", warned |-> TRUE]

(***************************************************************************)
(* getNodeMemoryArgs (gemini.tsx:94-123).  total and heapLimit are the     *)
(* values of os.totalmem() and heap_size_limit, in units of                *)
(* 1/MemGranularity MB.  totalMemoryMB is a fraction; the floor of its     *)
(* half is total \div (2 * MemGranularity).                                *)
(***************************************************************************)
currentMaxOldSpaceSizeMb(heapLimit) == heapLimit \div MemGranularity

targetMaxOldSpaceSizeInMB(total) == total \div (2 * MemGranularity)

getNodeMemoryArgs_GreaterOrEqual(total, heapLimit, noRelaunch) ==
  IF noRelaunch THEN <<>>
  ELSE IF targetMaxOldSpaceSizeInMB(total) >= currentMaxOldSpaceSizeMb(heapLimit)
       THEN <<"--max-old-space-size=" \o ToString(targetMaxOldSpaceSizeInMB(total))>>
       ELSE <<>>

getNodeMemoryArgs(total, heapLimit, noRelaunch) ==
  IF noRelaunch THEN <<>>
  ELSE IF targetMaxOldSpaceSizeInMB(total) > currentMaxOldSpaceSizeMb(heapLimit)
       THEN <<"--max-old-space-size=" \o ToString(targetMaxOldSpaceSizeInMB(total))>>
       ELSE <<>>

(***************************************************************************)
(* injectStdinIntoArgs (gemini.tsx:338-359).  The result is a record of    *)
(* both arrays after the call: args, the caller's vector, and finalArgs,   *)
(* the returned one.  Indexes are 0-based as in the source; a sequence     *)
(* element i of the source is element i + 1 here.                          *)
(***************************************************************************)
isPromptFlag(arg) == arg = "--prompt" \/ arg = "-p"

findPromptIndex(args) ==
  IF \E i \in 1..Len(args) : isPromptFlag(args[i])
  THEN (CHOOSE i \in 1..Len(args) :
          /\ isPromptFlag(args[i])
          /\ \A j \in 1..(i - 1) : ~isPromptFlag(args[j])) - 1
  ELSE -1

injectStdinIntoArgs_ReplaceFlag(args, stdinData) ==
  LET finalArgs == args
      promptIndex == findPromptIndex(finalArgs)
  IN [args |-> args,
      finalArgs |->
        IF stdinData # ""
        THEN IF promptIndex > -1 /\ Len(finalArgs) > promptIndex + 1
             THEN [finalArgs EXCEPT ![promptIndex + 1] =
                     stdinData \o "\n\n" \o finalArgs[promptIndex + 2]]
             ELSE finalArgs \o <<"--prompt", stdinData>>
        ELSE finalArgs]

injectStdinIntoArgs(args, stdinData) ==
  LET finalArgs == args
      promptIndex == findPromptIndex(finalArgs)
  IN [args |-> args,
      finalArgs |->
        IF stdinData # ""
        THEN IF promptIndex > -1 /\ Len(finalArgs) > promptIndex + 1
             THEN [finalArgs EXCEPT ![promptIndex + 2] =
                     stdinData \o "\n\n" \o finalArgs[promptIndex + 2]]
             ELSE finalArgs \o <<"--prompt", stdinData>>
        ELSE finalArgs]

(***************************************************************************)
(* The relaunch protocol of utils/relaunch.ts, which is not among the      *)
(* sources at hand; it follows its specification: spawn, wait for the      *)
(* child's exit, respawn when the exit code is the reserved one, otherwise *)
(* end this process with the child's exit code.                            *)
(***************************************************************************)
relaunchRequested(code) == code = RELAUNCH_EXIT_CODE

(***************************************************************************)
(* State.                                                                  *)
(***************************************************************************)
VARIABLES
  pc,                 \* position of main(), or of the function under test
  trace,              \* the calls made so far, in order
  exitCode,           \* status given to process.exit, -1 while running
  isTTY,              \* process.stdin.isTTY
  envSANDBOX,         \* process.env['SANDBOX'] is set
  envNoRelaunch,      \* process.env['GEMINI_CLI_NO_RELAUNCH'] is set
  totalmem,           \* os.totalmem()
  heapSizeLimit,      \* v8.getHeapStatistics().heap_size_limit
  processArgv,        \* process.argv
  promptInteractive,  \* argv.promptInteractive
  autoConfigureMemory,\* settings.merged.advanced.autoConfigureMemory
  selectedType,       \* settings.merged.security.auth.selectedType
  useExternal,        \* settings.merged.security.auth.useExternal
  sandboxConfig,      \* loadSandboxConfig returned a config
  memoryArgs,         \* memoryArgs of main(), result of getNodeMemoryArgs
  stdinData,          \* the text the last readStdin returned
  stdinReads,         \* number of readStdin calls
  sandboxArgs,        \* sandboxArgs of main(), result of injectStdinIntoArgs
  launcher,           \* what the relaunch protocol runs: "start_sandbox", "app", "none"
  spawnCount,         \* children spawned so far
  childLive,          \* a child is running
  childExits,         \* exit codes of the children that ended, in order
  listExtensions,     \* config.getListExtensions()
  interactive,        \* config.isInteractive()
  zedIntegration,     \* config.getExperimentalZedIntegration()
  browserSuppressed,  \* config.isBrowserLaunchSuppressed()
  question,           \* config.getQuestion()
  wasRaw,             \* process.stdin.isRaw as main() found it
  rawMode,            \* the terminal is in raw mode
  sigHandlers,        \* the SIGTERM and SIGINT handlers are installed
  kitty,              \* keyboard detection: "none", "pending", "resolved"
  input,              \* input of main()
  pipelineInput,      \* the input runNonInteractive was given
  cleanupRegistry,    \* callbacks given to registerCleanup, in order
  cleanupRan,         \* callbacks runExitCleanup invoked, in order
  dnsOrder,           \* settings.merged.advanced.dnsResolutionOrder
  dnsResult,          \* what validateDnsResolutionOrder returned, "" before
  dnsWarned,          \* validateDnsResolutionOrder called console.warn
  rejectionHandler,   \* the unhandledRejection handler is installed
  unhandledRejectionOccurred, \* the flag of setupUnhandledRejectionHandler
  rejections,         \* unhandled rejections the process has seen
  appEvents,          \* what the handler emitted on appEvents, in order
  signals,            \* SIGINT and SIGTERM deliveries the handlers took
  additionalNodeArgs, \* first argument given to relaunchAppInChildProcess
  additionalScriptArgs, \* second argument given to relaunchAppInChildProcess
  updateCheck,        \* checkForUpdates chain: "none", "pending", "done", "failed"
  debugMode           \* config.getDebugMode() as the update chain read it

envVars == <<isTTY, envSANDBOX, envNoRelaunch, totalmem, heapSizeLimit>>
settingsVars == <<promptInteractive, autoConfigureMemory, selectedType, useExternal>>
sandboxVars == <<sandboxConfig, memoryArgs, sandboxArgs>>
stdinVars == <<stdinData, stdinReads>>
childVars == <<launcher, spawnCount, childLive, childExits,
               additionalNodeArgs, additionalScriptArgs>>
updateVars == <<updateCheck, debugMode>>
configVars == <<listExtensions, interactive, zedIntegration, browserSuppressed, question>>
ttyVars == <<wasRaw, rawMode, sigHandlers>>
cleanupVars == <<cleanupRegistry, cleanupRan>>
dnsVars == <<dnsOrder, dnsResult, dnsWarned>>
rejectionVars == <<rejectionHandler, unhandledRejectionOccurred, rejections, appEvents>>

vars == <<pc, trace, exitCode, envVars, processArgv, settingsVars,
          sandboxVars, stdinVars, childVars, configVars, ttyVars, kitty,
          input, pipelineInput, cleanupVars, dnsVars, rejectionVars, signals,
          updateVars>>

SelectedTypes == {"none", "LOGIN_WITH_GOOGLE", "USE_OPENAI"}

\* everything main() has not touched yet
InitRest ==
  /\ trace = <<>>
  /\ exitCode = -1
  /\ promptInteractive = FALSE
  /\ autoConfigureMemory = FALSE
  /\ selectedType = "none"
  /\ useExternal = FALSE
  /\ memoryArgs = <<>>
  /\ sandboxArgs = <<>>
  /\ launcher = "none"
  /\ spawnCount = 0
  /\ childLive = FALSE
  /\ childExits = <<>>
  /\ listExtensions = FALSE
  /\ interactive = FALSE
  /\ zedIntegration = FALSE
  /\ browserSuppressed = FALSE
  /\ question = ""
  /\ wasRaw = FALSE
  /\ rawMode = FALSE
  /\ sigHandlers = FALSE
  /\ kitty = "none"
  /\ input = ""
  /\ pipelineInput = ""
  /\ cleanupRegistry = <<>>
  /\ cleanupRan = <<>>
  /\ dnsResult = ""
  /\ dnsWarned = FALSE
  /\ rejectionHandler = FALSE
  /\ unhandledRejectionOccurred = FALSE
  /\ rejections = 0
  /\ appEvents = <<>>
  /\ signals = 0
  /\ additionalNodeArgs = <<>>
  /\ additionalScriptArgs = <<>>
  /\ updateCheck = "none"
  /\ debugMode = FALSE

Init ==
  /\ pc = "start"
  /\ isTTY \in BOOLEAN
  /\ envSANDBOX \in BOOLEAN
  /\ envNoRelaunch \in BOOLEAN
  /\ totalmem \in MainTotalMemValues
  /\ heapSizeLimit \in MainHeapLimitValues
  /\ processArgv \in MainArgVectors
  /\ dnsOrder \in MainDnsOrders
  /\ sandboxConfig = FALSE
  /\ stdinData = ""
  /\ stdinReads = 0
  /\ InitRest

\* process.exit(code) after the calls in events
Exit(code, events) ==
  /\ pc' = "exited"
  /\ exitCode' = code
  /\ trace' = trace \o events

\* move on to position next after the calls in events
Goto(next, events) ==
  /\ pc' = next
  /\ exitCode' = exitCode
  /\ trace' = trace \o events

(***************************************************************************)
(* main(), gemini.tsx:241-374: settings, arguments, the flag guard, the    *)
(* console, DNS and theme set-up, and the hand-off to a child process.     *)
(***************************************************************************)
\* 242-246
LoadSettings ==
  /\ pc = "start"
  /\ autoConfigureMemory' \in BOOLEAN
  /\ selectedType' \in SelectedTypes
  /\ useExternal' \in BOOLEAN
  /\ rejectionHandler' = TRUE
  /\ unhandledRejectionOccurred' = FALSE
  /\ Goto("parseArguments",
          <<"setupUnhandledRejectionHandler", "loadSettings",
            "migrateDeprecatedSettings", "cleanupCheckpoints", "randomUUID">>)
  /\ UNCHANGED <<envVars, dnsVars, rejections, appEvents, signals, updateVars,
                 processArgv, promptInteractive, sandboxVars, stdinVars,
                 childVars, configVars, ttyVars, kitty, input, pipelineInput,
                 cleanupVars>>

\* 249
ParseArguments ==
  /\ pc = "parseArguments"
  /\ promptInteractive' \in BOOLEAN
  /\ Goto("checkPromptInteractive", <<"parseArguments">>)
  /\ UNCHANGED <<envVars, dnsVars, rejectionVars, signals, updateVars,
                 processArgv, autoConfigureMemory, selectedType,
                 useExternal, sandboxVars, stdinVars, childVars, configVars,
                 ttyVars, kitty, input, pipelineInput, cleanupVars>>

\* 253: the flag combination that cannot work
invalidPromptInteractive_OnTerminal == promptInteractive /\ isTTY

invalidPromptInteractive == promptInteractive /\ ~isTTY

\* 253-258
CheckPromptInteractive ==
  /\ pc = "checkPromptInteractive"
  /\ IF invalidPromptInteractive
     THEN Exit(1, <<"console.error:prompt-interactive with piped stdin">>)
     ELSE Goto("patchConsole", <<>>)
  /\ UNCHANGED <<envVars, dnsVars, rejectionVars, signals, updateVars,
                 processArgv, settingsVars, sandboxVars, stdinVars,
                 childVars, configVars, ttyVars, kitty, input, pipelineInput,
                 cleanupVars>>

\* 260-284
PatchConsole ==
  /\ pc = "patchConsole"
  /\ cleanupRegistry' = Append(cleanupRegistry, "consolePatcher.cleanup")
  /\ dnsResult' = validateDnsResolutionOrder(dnsOrder).result
  /\ dnsWarned' = validateDnsResolutionOrder(dnsOrder).warned
  /\ Goto("sandboxGate",
          <<"consolePatcher.patch", "registerCleanup">>
            \o (IF dnsWarned' THEN <<"console.warn:dnsResolutionOrder">> ELSE <<>>)
            \o <<"dns.setDefaultResultOrder", "themeManager.loadCustomThemes">>)
  /\ UNCHANGED <<envVars, dnsOrder, rejectionVars, signals, updateVars, processArgv,
                 settingsVars, sandboxVars, stdinVars, childVars, configVars,
                 ttyVars, kitty, input, pipelineInput, cleanupRan>>

\* 289: the condition of the hop into a child process
outsideSandbox_Inverted == envSANDBOX

outsideSandbox_Always == TRUE

outsideSandbox == ~envSANDBOX

\* 289-300, 368
SandboxGate ==
  /\ pc = "sandboxGate"
  /\ IF outsideSandbox
     THEN /\ memoryArgs' = IF autoConfigureMemory
                           THEN getNodeMemoryArgs(totalmem, heapSizeLimit, envNoRelaunch)
                           ELSE <<>>
          /\ sandboxConfig' \in BOOLEAN
          /\ Goto(IF sandboxConfig' THEN "loadPartialConfig" ELSE "relaunchApp",
                  (IF autoConfigureMemory THEN <<"getNodeMemoryArgs">> ELSE <<>>)
                    \o <<"loadSandboxConfig">>)
     ELSE /\ Goto("loadExtensions", <<>>)
          /\ UNCHANGED <<memoryArgs, sandboxConfig>>
  /\ UNCHANGED <<envVars, dnsVars, rejectionVars, signals, updateVars,
                 processArgv, settingsVars, sandboxArgs, stdinVars,
                 childVars, configVars, ttyVars, kitty, input, pipelineInput,
                 cleanupVars>>

\* 301-312
LoadPartialConfig ==
  /\ pc = "loadPartialConfig"
  /\ Goto(IF selectedType # "none" /\ ~useExternal
          THEN "preSandboxAuth" ELSE "captureStdin",
          <<"loadCliConfig:partial">>)
  /\ UNCHANGED <<envVars, dnsVars, rejectionVars, signals, updateVars,
                 processArgv, settingsVars, sandboxVars, stdinVars,
                 childVars, configVars, ttyVars, kitty, input, pipelineInput,
                 cleanupVars>>

\* 326-329: what the catch block does with a failed validation or refresh
onAuthError_Swallowed == [pc |-> "captureStdin", exitCode |-> -1]

onAuthError == [pc |-> "exited", exitCode |-> 1]

\* 315-329: err is what validateAuthMethod returned, refreshed whether
\* refreshAuth resolved
PreSandboxAuth ==
  /\ pc = "preSandboxAuth"
  /\ \E err \in BOOLEAN, refreshed \in BOOLEAN :
       IF err
       THEN /\ pc' = onAuthError.pc
            /\ exitCode' = onAuthError.exitCode
            /\ trace' = trace \o <<"validateAuthMethod:error",
                                   "console.error:Error authenticating">>
       ELSE IF ~refreshed
       THEN /\ pc' = onAuthError.pc
            /\ exitCode' = onAuthError.exitCode
            /\ trace' = trace \o <<"validateAuthMethod:ok", "refreshAuth:rejected",
                                   "console.error:Error authenticating">>
       ELSE Goto("captureStdin", <<"validateAuthMethod:ok", "refreshAuth:resolved">>)
  /\ UNCHANGED <<envVars, dnsVars, rejectionVars, signals, updateVars,
                 processArgv, settingsVars, sandboxVars, stdinVars,
                 childVars, configVars, ttyVars, kitty, input, pipelineInput,
                 cleanupVars>>

\* 331-334
CaptureStdin ==
  /\ pc = "captureStdin"
  /\ IF ~isTTY
     THEN /\ stdinData' \in StdinTexts
          /\ stdinReads' = stdinReads + 1
          /\ Goto("launchSandbox", <<"readStdin">>)
     ELSE /\ stdinData' = ""
          /\ stdinReads' = stdinReads
          /\ Goto("launchSandbox", <<>>)
  /\ UNCHANGED <<envVars, dnsVars, rejectionVars, signals, updateVars,
                 processArgv, settingsVars, sandboxVars, childVars,
                 configVars, ttyVars, kitty, input, pipelineInput, cleanupVars>>

\* the launch neither awaited nor followed by an exit: main() carries on
LaunchSandbox_FallThrough ==
  /\ pc = "launchSandbox"
  /\ sandboxArgs' = injectStdinIntoArgs(processArgv, stdinData).finalArgs
  /\ processArgv' = injectStdinIntoArgs(processArgv, stdinData).args
  /\ launcher' = "start_sandbox"
  /\ Goto("loadExtensions", <<"relaunchOnExitCode">>)
  /\ UNCHANGED <<envVars, dnsVars, rejectionVars, signals, updateVars,
                 settingsVars, sandboxConfig, memoryArgs, stdinVars,
                 spawnCount, childLive, childExits, additionalNodeArgs,
                 additionalScriptArgs, configVars, ttyVars, kitty,
                 input, pipelineInput, cleanupVars>>

\* the sandbox started once, outside the protocol, and line 367 reached
LaunchSandbox_Direct ==
  /\ pc = "launchSandbox"
  /\ sandboxArgs' = injectStdinIntoArgs(processArgv, stdinData).finalArgs
  /\ processArgv' = injectStdinIntoArgs(processArgv, stdinData).args
  /\ launcher' = "start_sandbox"
  /\ spawnCount' = spawnCount + 1
  /\ childLive' = FALSE
  /\ \E code \in ExitCodes : childExits' = Append(childExits, code)
  /\ Exit(0, <<"spawn:start_sandbox", "childExit">>)
  /\ UNCHANGED <<envVars, dnsVars, rejectionVars, signals, updateVars,
                 settingsVars, sandboxConfig, memoryArgs, stdinVars,
                 additionalNodeArgs, additionalScriptArgs,
                 configVars, ttyVars, kitty, input, pipelineInput, cleanupVars>>

\* 361-367: the protocol is entered and, ending the process itself, never
\* returned from, so the process.exit(0) of line 367 is not reached
LaunchSandbox ==
  /\ pc = "launchSandbox"
  /\ sandboxArgs' = injectStdinIntoArgs(processArgv, stdinData).finalArgs
  /\ processArgv' = injectStdinIntoArgs(processArgv, stdinData).args
  /\ launcher' = "start_sandbox"
  /\ Goto("relaunchSpawn", <<"relaunchOnExitCode">>)
  /\ UNCHANGED <<envVars, dnsVars, rejectionVars, signals, updateVars,
                 settingsVars, sandboxConfig, memoryArgs, stdinVars,
                 spawnCount, childLive, childExits, additionalNodeArgs,
                 additionalScriptArgs, configVars, ttyVars, kitty,
                 input, pipelineInput, cleanupVars>>

\* 372: the node arguments the plain copy is given
relaunchNodeArgs_WithArgv == memoryArgs \o processArgv

relaunchNodeArgs == memoryArgs

\* 372: relaunchAppInChildProcess(memoryArgs, []) runs a plain copy of this
\* process under the same protocol
RelaunchApp ==
  /\ pc = "relaunchApp"
  /\ launcher' = "app"
  /\ additionalNodeArgs' = relaunchNodeArgs
  /\ additionalScriptArgs' = <<>>
  /\ Goto("relaunchSpawn", <<"relaunchAppInChildProcess">>)
  /\ UNCHANGED <<envVars, dnsVars, rejectionVars, signals, updateVars,
                 processArgv, settingsVars, sandboxVars, stdinVars,
                 spawnCount, childLive, childExits, configVars, ttyVars, kitty,
                 input, pipelineInput, cleanupVars>>

(***************************************************************************)
(* relaunchOnExitCode: the launcher is invoked, its child runs, and its    *)
(* exit code decides.                                                      *)
(***************************************************************************)
SpawnChild ==
  /\ pc = "relaunchSpawn"
  /\ spawnCount' = spawnCount + 1
  /\ childLive' = TRUE
  /\ Goto("relaunchWait", <<"spawn:" \o launcher>>)
  /\ UNCHANGED <<envVars, dnsVars, rejectionVars, signals, updateVars,
                 processArgv, settingsVars, sandboxVars, stdinVars,
                 launcher, childExits, additionalNodeArgs, additionalScriptArgs,
                 configVars, ttyVars, kitty, input,
                 pipelineInput, cleanupVars>>

\* a child asks for a relaunch at most MaxRelaunch times in a row
ChildExit ==
  /\ pc = "relaunchWait"
  /\ childLive
  /\ \E code \in ExitCodes :
       /\ relaunchRequested(code) => spawnCount <= MaxRelaunch
       /\ childExits' = Append(childExits, code)
       /\ IF relaunchRequested(code)
          THEN Goto("relaunchSpawn", <<"childExit">>)
          ELSE Exit(code, <<"childExit">>)
  /\ childLive' = FALSE
  /\ UNCHANGED <<envVars, dnsVars, rejectionVars, signals, updateVars,
                 processArgv, settingsVars, sandboxVars, stdinVars,
                 launcher, spawnCount, additionalNodeArgs, additionalScriptArgs,
                 configVars, ttyVars, kitty, input,
                 pipelineInput, cleanupVars>>

(***************************************************************************)
(* main(), gemini.tsx:376-470: extensions and configuration, raw mode and  *)
(* keyboard detection, initialisation, and the interactive path.           *)
(***************************************************************************)
\* 383-394
LoadExtensionsAndConfig ==
  /\ pc = "loadExtensions"
  /\ listExtensions' \in BOOLEAN
  /\ interactive' \in BOOLEAN
  /\ zedIntegration' \in BOOLEAN
  /\ browserSuppressed' \in BOOLEAN
  /\ question' \in Questions
  /\ Goto("listExtensions", <<"loadExtensions", "loadCliConfig">>)
  /\ UNCHANGED <<envVars, dnsVars, rejectionVars, signals, updateVars,
                 processArgv, settingsVars, sandboxVars, stdinVars,
                 childVars, ttyVars, kitty, input, pipelineInput, cleanupVars>>

\* 397-403
ListExtensions ==
  /\ pc = "listExtensions"
  /\ IF listExtensions
     THEN Exit(0, <<"console.log:Installed extensions">>)
     ELSE Goto("rawMode", <<>>)
  /\ UNCHANGED <<envVars, dnsVars, rejectionVars, signals, updateVars,
                 processArgv, settingsVars, sandboxVars, stdinVars,
                 childVars, configVars, ttyVars, kitty, input, pipelineInput,
                 cleanupVars>>

\* 407: the condition of raw mode, the signal handlers and the detection
rawModeWanted_AnyMode(isRaw) == ~isRaw /\ isTTY

rawModeWanted(isRaw) == interactive /\ ~isRaw /\ isTTY

\* 405-424: process.stdin.isRaw is set only on a terminal
EnableRawMode ==
  /\ pc = "rawMode"
  /\ wasRaw' \in (IF isTTY THEN BOOLEAN ELSE {FALSE})
  /\ IF rawModeWanted(wasRaw')
     THEN /\ rawMode' = TRUE
          /\ sigHandlers' = TRUE
          /\ kitty' = "pending"
          /\ Goto("initializeApp",
                  <<"setRawMode(true)", "on:SIGTERM", "on:SIGINT",
                    "detectAndEnableKittyProtocol">>)
     ELSE /\ rawMode' = wasRaw'
          /\ UNCHANGED <<sigHandlers, kitty>>
          /\ Goto("initializeApp", <<>>)
  /\ UNCHANGED <<envVars, dnsVars, rejectionVars, signals, updateVars,
                 processArgv, settingsVars, sandboxVars, stdinVars,
                 childVars, configVars, input, pipelineInput, cleanupVars>>

\* detectAndEnableKittyProtocol settles while main() goes on
KittyResolve ==
  /\ kitty = "pending"
  /\ pc # "exited"
  /\ kitty' = "resolved"
  /\ UNCHANGED <<pc, trace, exitCode, envVars, dnsVars, rejectionVars, signals, updateVars,
                 processArgv, settingsVars,
                 sandboxVars, stdinVars, childVars, configVars, ttyVars, input,
                 pipelineInput, cleanupVars>>

\* 426-428
InitializeApp ==
  /\ pc = "initializeApp"
  /\ Goto("oauthPrefetch", <<"setMaxSizedBoxDebugging", "initializeApp">>)
  /\ UNCHANGED <<envVars, dnsVars, rejectionVars, signals, updateVars,
                 processArgv, settingsVars, sandboxVars, stdinVars,
                 childVars, configVars, ttyVars, kitty, input, pipelineInput,
                 cleanupVars>>

\* 431-435: the condition of the credential pre-fetch
prefetchNeeded_AnyGoogleLogin == selectedType = "LOGIN_WITH_GOOGLE"

prefetchNeeded == selectedType = "LOGIN_WITH_GOOGLE" /\ browserSuppressed

\* 431-439: getOauthClient is awaited; it resolves or rejects
OauthPrefetch ==
  /\ pc = "oauthPrefetch"
  /\ IF prefetchNeeded
     THEN \E ok \in BOOLEAN :
            IF ok
            THEN Goto("zedIntegration", <<"getOauthClient", "getOauthClient:resolved">>)
            ELSE Goto("rejected", <<"getOauthClient", "getOauthClient:rejected">>)
     ELSE Goto("zedIntegration", <<>>)
  /\ UNCHANGED <<envVars, dnsVars, rejectionVars, signals, updateVars,
                 processArgv, settingsVars, sandboxVars, stdinVars,
                 childVars, configVars, ttyVars, kitty, input, pipelineInput,
                 cleanupVars>>

\* 442-444
ZedIntegration ==
  /\ pc = "zedIntegration"
  /\ IF zedIntegration
     THEN Goto("returned", <<"runZedIntegration">>)
     ELSE Goto("startupWarnings", <<>>)
  /\ UNCHANGED <<envVars, dnsVars, rejectionVars, signals, updateVars,
                 processArgv, settingsVars, sandboxVars, stdinVars,
                 childVars, configVars, ttyVars, kitty, input, pipelineInput,
                 cleanupVars>>

\* 446-458
StartupWarnings ==
  /\ pc = "startupWarnings"
  /\ input' = question
  /\ Goto(IF interactive THEN "awaitKitty" ELSE "configInitialize",
          <<"getStartupWarnings", "getUserStartupWarnings">>)
  /\ UNCHANGED <<envVars, dnsVars, rejectionVars, signals, updateVars,
                 processArgv, settingsVars, sandboxVars, stdinVars,
                 childVars, configVars, ttyVars, kitty, pipelineInput, cleanupVars>>

\* 461: await kittyProtocolDetectionComplete; an undefined promise does not block
kittyAwaited_NotAwaited == TRUE

kittyAwaited == kitty # "pending"

AwaitKitty ==
  /\ pc = "awaitKitty"
  /\ kittyAwaited
  /\ Goto("startInteractiveUI", <<>>)
  /\ UNCHANGED <<envVars, dnsVars, rejectionVars, signals, updateVars,
                 processArgv, settingsVars, sandboxVars, stdinVars,
                 childVars, configVars, ttyVars, kitty, input, pipelineInput,
                 cleanupVars>>

\* the return of line 469 left out: main() goes on into the other path
StartInteractiveUI_NoReturn ==
  /\ pc = "startInteractiveUI"
  /\ cleanupRegistry' = Append(cleanupRegistry, "instance.unmount")
  /\ Goto("configInitialize",
          <<"startInteractiveUI", "getCliVersion", "setWindowTitle", "render",
            "checkForUpdates", "registerCleanup">>)
  /\ updateCheck' = "pending"
  /\ UNCHANGED <<envVars, dnsVars, rejectionVars, signals, debugMode,
                 processArgv, settingsVars, sandboxVars, stdinVars,
                 childVars, configVars, ttyVars, kitty, input, pipelineInput,
                 cleanupRan>>

\* 462-469 and startInteractiveUI, 164-231
StartInteractiveUI ==
  /\ pc = "startInteractiveUI"
  /\ cleanupRegistry' = Append(cleanupRegistry, "instance.unmount")
  /\ Goto("returned",
          <<"startInteractiveUI", "getCliVersion", "setWindowTitle", "render",
            "checkForUpdates", "registerCleanup">>)
  /\ updateCheck' = "pending"
  /\ UNCHANGED <<envVars, dnsVars, rejectionVars, signals, debugMode,
                 processArgv, settingsVars, sandboxVars, stdinVars,
                 childVars, configVars, ttyVars, kitty, input, pipelineInput,
                 cleanupRan>>

\* 224-226: whether the catch of the update chain writes to the error stream
updateErrorLogged_Always(debug) == TRUE

updateErrorLogged(debug) == debug

\* 219-228: the update chain settles after startInteractiveUI returned.
\* checkForUpdates resolves and handleAutoUpdate returns, or checkForUpdates
\* rejects, or handleAutoUpdate throws; the catch of line 223 takes both
\* failures and reads config.getDebugMode().
UpdateCheckSettles ==
  /\ updateCheck = "pending"
  /\ pc # "exited"
  /\ \/ /\ updateCheck' = "done"
        /\ UNCHANGED debugMode
        /\ Goto(pc, <<"checkForUpdates:resolved", "handleAutoUpdate">>)
     \/ /\ updateCheck' = "failed"
        /\ debugMode' \in BOOLEAN
        /\ \E failure \in {<<"checkForUpdates:rejected">>,
                            <<"checkForUpdates:resolved", "handleAutoUpdate",
                              "handleAutoUpdate:threw">>} :
             Goto(pc, failure \o
                        (IF updateErrorLogged(debugMode')
                         THEN <<"console.error:Update check failed">>
                         ELSE <<>>))
  /\ UNCHANGED <<envVars, dnsVars, rejectionVars, signals,
                 processArgv, settingsVars, sandboxVars, stdinVars,
                 childVars, configVars, ttyVars, kitty, input, pipelineInput,
                 cleanupVars>>

(***************************************************************************)
(* main(), gemini.tsx:472-517: the non-interactive path.                   *)
(***************************************************************************)
\* 472: the initialisation returns or throws
ConfigInitialize ==
  /\ pc = "configInitialize"
  /\ \E ok \in BOOLEAN :
       IF ok
       THEN Goto("readStdin", <<"config.initialize">>)
       ELSE Goto("rejected", <<"config.initialize:threw">>)
  /\ UNCHANGED <<envVars, dnsVars, rejectionVars, signals, updateVars,
                 processArgv, settingsVars, sandboxVars, stdinVars,
                 childVars, configVars, ttyVars, kitty, input, pipelineInput,
                 cleanupVars>>

\* 480-482: piped text goes in front of the question
mergeStdin_Always(text, question_) == text \o "\n\n" \o question_

mergeStdin_NoBlankLine(text, question_) == text \o question_

mergeStdin(text, question_) ==
  IF text # "" THEN text \o "\n\n" \o question_ ELSE question_

\* 478-483: readStdin returns the piped text or throws
ReadStdinNonInteractive ==
  /\ pc = "readStdin"
  /\ IF ~isTTY
     THEN /\ stdinReads' = stdinReads + 1
          /\ \/ /\ stdinData' \in StdinTexts
                /\ input' = mergeStdin(stdinData', input)
                /\ Goto("checkInput", <<"readStdin">>)
             \/ /\ UNCHANGED <<stdinData, input>>
                /\ Goto("rejected", <<"readStdin", "readStdin:threw">>)
     ELSE /\ UNCHANGED <<stdinVars, input>>
          /\ Goto("checkInput", <<>>)
  /\ UNCHANGED <<envVars, dnsVars, rejectionVars, signals, updateVars,
                 processArgv, settingsVars, sandboxVars, childVars,
                 configVars, ttyVars, kitty, pipelineInput, cleanupVars>>

\* 484: the test that stops a run without input
noInput_Never == FALSE

noInput == input = ""

\* 484-499
CheckInput ==
  /\ pc = "checkInput"
  /\ IF noInput
     THEN Exit(1, <<"console.error:No input provided via stdin">>)
     ELSE Goto("validateNonInteractiveAuth", <<"logUserPrompt">>)
  /\ UNCHANGED <<envVars, dnsVars, rejectionVars, signals, updateVars,
                 processArgv, settingsVars, sandboxVars, stdinVars,
                 childVars, configVars, ttyVars, kitty, input, pipelineInput,
                 cleanupVars>>

\* 501: where main() is after validateNonInteractiveAuth threw; nothing
\* catches it, so main() rejects
afterAuthThrew_Swallowed == "runNonInteractive"

afterAuthThrew == "rejected"

\* 501-506: the validation returns a configuration or throws
ValidateNonInteractiveAuth ==
  /\ pc = "validateNonInteractiveAuth"
  /\ \E ok \in BOOLEAN :
       IF ok
       THEN Goto("runNonInteractive", <<"validateNonInteractiveAuth">>)
       ELSE Goto(afterAuthThrew, <<"validateNonInteractiveAuth:threw">>)
  /\ UNCHANGED <<envVars, dnsVars, rejectionVars, signals, updateVars,
                 processArgv, settingsVars, sandboxVars, stdinVars,
                 childVars, configVars, ttyVars, kitty, input, pipelineInput,
                 cleanupVars>>

\* 513: the pipeline returns or throws
RunNonInteractive ==
  /\ pc = "runNonInteractive"
  /\ pipelineInput' = input
  /\ \E ok \in BOOLEAN :
       IF ok
       THEN Goto("runExitCleanup", <<"runNonInteractive", "runNonInteractive:done">>)
       ELSE Goto("rejected", <<"runNonInteractive", "runNonInteractive:threw">>)
  /\ UNCHANGED <<envVars, dnsVars, rejectionVars, signals, updateVars,
                 processArgv, settingsVars, sandboxVars, stdinVars,
                 childVars, configVars, ttyVars, kitty, input, cleanupVars>>

\* 516
RunExitCleanup ==
  /\ pc = "runExitCleanup"
  /\ cleanupRan' = cleanupRan \o cleanupRegistry
  /\ Goto("exitSuccess", <<"runExitCleanup">>)
  /\ UNCHANGED <<envVars, dnsVars, rejectionVars, signals, updateVars,
                 processArgv, settingsVars, sandboxVars, stdinVars,
                 childVars, configVars, ttyVars, kitty, input, pipelineInput,
                 cleanupRegistry>>

\* 517
ExitSuccess ==
  /\ pc = "exitSuccess"
  /\ Exit(0, <<>>)
  /\ UNCHANGED <<envVars, dnsVars, rejectionVars, signals, updateVars,
                 processArgv, settingsVars, sandboxVars, stdinVars,
                 childVars, configVars, ttyVars, kitty, input, pipelineInput,
                 cleanupVars>>

(***************************************************************************)
(* What runs beside main(): the signal handlers of lines 414-419, and the  *)
(* caller of main() (index.ts, not among the sources at hand), which       *)
(* follows its specification: an exception out of main() is reported and   *)
(* the process ends with status 1.                                         *)
(***************************************************************************)
\* 415, 418: the mode the handlers set
signalHandlerMode_StaysRaw == rawMode

signalHandlerMode == wasRaw

\* 414-419: SIGTERM or SIGINT arrives with the handlers installed; they
\* replace the default disposition, so the process is not ended by it.
\* Before they are installed a signal ends the process at once.
Signal ==
  /\ sigHandlers
  /\ pc # "exited"
  /\ signals < MaxSignals
  /\ signals' = signals + 1
  /\ rawMode' = signalHandlerMode
  /\ UNCHANGED <<pc, trace, exitCode, envVars, dnsVars, rejectionVars,
                 updateVars,
                 processArgv, settingsVars, sandboxVars, stdinVars, childVars,
                 configVars, wasRaw, sigHandlers, kitty, input, pipelineInput,
                 cleanupVars>>

TopLevelCatch ==
  /\ pc = "rejected"
  /\ Exit(1, <<"console.error:An unexpected critical error occurred">>)
  /\ UNCHANGED <<envVars, dnsVars, rejectionVars, signals, updateVars,
                 processArgv, settingsVars, sandboxVars, stdinVars,
                 childVars, configVars, ttyVars, kitty, input, pipelineInput,
                 cleanupVars>>

Next ==
  \/ LoadSettings
  \/ ParseArguments
  \/ CheckPromptInteractive
  \/ PatchConsole
  \/ SandboxGate
  \/ LoadPartialConfig
  \/ PreSandboxAuth
  \/ CaptureStdin
  \/ LaunchSandbox
  \/ RelaunchApp
  \/ SpawnChild
  \/ ChildExit
  \/ LoadExtensionsAndConfig
  \/ ListExtensions
  \/ EnableRawMode
  \/ KittyResolve
  \/ InitializeApp
  \/ OauthPrefetch
  \/ ZedIntegration
  \/ StartupWarnings
  \/ AwaitKitty
  \/ StartInteractiveUI
  \/ ConfigInitialize
  \/ ReadStdinNonInteractive
  \/ CheckInput
  \/ ValidateNonInteractiveAuth
  \/ RunNonInteractive
  \/ RunExitCleanup
  \/ ExitSuccess
  \/ Signal
  \/ TopLevelCatch
  \/ UpdateCheckSettles

Spec == Init /\ [][Next]_vars

(***************************************************************************)
(* getNodeMemoryArgs on its own: the inputs are drawn, the function is     *)
(* applied once.                                                           *)
(***************************************************************************)
InitMemory ==
  /\ pc = "getNodeMemoryArgs"
  /\ isTTY = TRUE
  /\ envSANDBOX = FALSE
  /\ envNoRelaunch \in BOOLEAN
  /\ totalmem \in TotalMemValues
  /\ heapSizeLimit \in HeapLimitValues
  /\ processArgv = <<>>
  /\ dnsOrder = Undefined
  /\ sandboxConfig = FALSE
  /\ stdinData = ""
  /\ stdinReads = 0
  /\ InitRest

CallGetNodeMemoryArgs ==
  /\ pc = "getNodeMemoryArgs"
  /\ memoryArgs' = getNodeMemoryArgs(totalmem, heapSizeLimit, envNoRelaunch)
  /\ Goto("getNodeMemoryArgs:returned", <<"getNodeMemoryArgs">>)
  /\ UNCHANGED <<envVars, dnsVars, rejectionVars, signals, updateVars,
                 processArgv, settingsVars, sandboxConfig, sandboxArgs,
                 stdinVars, childVars, configVars, ttyVars, kitty, input,
                 pipelineInput, cleanupVars>>

NextMemory == CallGetNodeMemoryArgs

SpecMemory == InitMemory /\ [][NextMemory]_vars

(***************************************************************************)
(* injectStdinIntoArgs on its own: process.argv and the captured text are  *)
(* drawn, the function is applied once as line 361 applies it.             *)
(***************************************************************************)
InitInject ==
  /\ pc = "injectStdinIntoArgs"
  /\ isTTY = FALSE
  /\ envSANDBOX = FALSE
  /\ envNoRelaunch = FALSE
  /\ totalmem = MB(8192)
  /\ heapSizeLimit = MB(4096)
  /\ processArgv \in ArgVectors
  /\ dnsOrder = Undefined
  /\ sandboxConfig = TRUE
  /\ stdinData \in StdinTexts
  /\ stdinReads = 1
  /\ InitRest

CallInjectStdinIntoArgs ==
  /\ pc = "injectStdinIntoArgs"
  /\ sandboxArgs' = injectStdinIntoArgs(processArgv, stdinData).finalArgs
  /\ processArgv' = injectStdinIntoArgs(processArgv, stdinData).args
  /\ Goto("injectStdinIntoArgs:returned", <<"injectStdinIntoArgs">>)
  /\ UNCHANGED <<envVars, dnsVars, rejectionVars, signals, updateVars,
                 settingsVars, sandboxConfig, memoryArgs, stdinVars,
                 childVars, configVars, ttyVars, kitty, input, pipelineInput,
                 cleanupVars>>

NextInject == CallInjectStdinIntoArgs

SpecInject == InitInject /\ [][NextInject]_vars

(***************************************************************************)
(* validateDnsResolutionOrder on its own: the setting is drawn, the        *)
(* function is applied once as line 271 applies it.                        *)
(***************************************************************************)
InitDns ==
  /\ pc = "validateDnsResolutionOrder"
  /\ isTTY = TRUE
  /\ envSANDBOX = FALSE
  /\ envNoRelaunch = FALSE
  /\ totalmem = MB(8192)
  /\ heapSizeLimit = MB(4096)
  /\ processArgv = <<>>
  /\ dnsOrder \in DnsOrders
  /\ sandboxConfig = FALSE
  /\ stdinData = ""
  /\ stdinReads = 0
  /\ InitRest

CallValidateDnsResolutionOrder ==
  /\ pc = "validateDnsResolutionOrder"
  /\ dnsResult' = validateDnsResolutionOrder(dnsOrder).result
  /\ dnsWarned' = validateDnsResolutionOrder(dnsOrder).warned
  /\ Goto("validateDnsResolutionOrder:returned",
          IF dnsWarned' THEN <<"console.warn:dnsResolutionOrder">> ELSE <<>>)
  /\ UNCHANGED <<envVars, dnsOrder, rejectionVars, signals, updateVars, processArgv,
                 settingsVars, sandboxVars, stdinVars, childVars, configVars,
                 ttyVars, kitty, input, pipelineInput, cleanupVars>>

NextDns == CallValidateDnsResolutionOrder

SpecDns == InitDns /\ [][NextDns]_vars

(***************************************************************************)
(* setupUnhandledRejectionHandler on its own, gemini.tsx:133-153: the      *)
(* handler is installed, then unhandled rejections arrive one at a time.   *)
(***************************************************************************)
\* 136-147: the message of the handler
errorMessage(reason) ==
  "CRITICAL: Unhandled Promise Rejection!\nReason: " \o reason.text \o
    (IF reason.isError /\ reason.stack # ""
     THEN "\nStack trace:\n" \o reason.stack
     ELSE "")

\* 136-152: what the handler emits and the flag it leaves
onUnhandledRejection_EveryTime(occurred, reason) ==
  [emitted |-> <<[event |-> "LogError", payload |-> errorMessage(reason)],
                 [event |-> "OpenDebugConsole", payload |-> ""]>>,
   occurred |-> TRUE]

onUnhandledRejection(occurred, reason) ==
  [emitted |-> <<[event |-> "LogError", payload |-> errorMessage(reason)]>> \o
               (IF ~occurred
                THEN <<[event |-> "OpenDebugConsole", payload |-> ""]>>
                ELSE <<>>),
   occurred |-> TRUE]

InitRejection ==
  /\ pc = "setupUnhandledRejectionHandler"
  /\ isTTY = TRUE
  /\ envSANDBOX = FALSE
  /\ envNoRelaunch = FALSE
  /\ totalmem = MB(8192)
  /\ heapSizeLimit = MB(4096)
  /\ processArgv = <<>>
  /\ dnsOrder = Undefined
  /\ sandboxConfig = FALSE
  /\ stdinData = ""
  /\ stdinReads = 0
  /\ InitRest

\* 133-135, 153
CallSetupUnhandledRejectionHandler ==
  /\ pc = "setupUnhandledRejectionHandler"
  /\ rejectionHandler' = TRUE
  /\ unhandledRejectionOccurred' = FALSE
  /\ Goto("setupUnhandledRejectionHandler:returned", <<>>)
  /\ UNCHANGED <<envVars, dnsVars, rejections, appEvents, signals, updateVars, processArgv,
                 settingsVars, sandboxVars, stdinVars, childVars, configVars,
                 ttyVars, kitty, input, pipelineInput, cleanupVars>>

\* 135-152: a promise is rejected with nothing handling it
UnhandledRejection ==
  /\ rejectionHandler
  /\ pc # "exited"
  /\ rejections < MaxRejections
  /\ \E reason \in RejectionReasons :
       /\ appEvents' = appEvents \o
            onUnhandledRejection(unhandledRejectionOccurred, reason).emitted
       /\ unhandledRejectionOccurred' =
            onUnhandledRejection(unhandledRejectionOccurred, reason).occurred
  /\ rejections' = rejections + 1
  /\ UNCHANGED <<pc, trace, exitCode, envVars, dnsVars, rejectionHandler,
                 signals, updateVars, processArgv, settingsVars, sandboxVars, stdinVars,
                 childVars, configVars, ttyVars, kitty, input, pipelineInput,
                 cleanupVars>>

NextRejection ==
  \/ CallSetupUnhandledRejectionHandler
  \/ UnhandledRejection

SpecRejection == InitRejection /\ [][NextRejection]_vars

(***************************************************************************)
(* Properties.                                                             *)
(***************************************************************************)
Has(e) == \E i \in 1..Len(trace) : trace[i] = e

Count(e) == Cardinality({i \in 1..Len(trace) : trace[i] = e})

\* position of the first e in trace, 0 when there is none
Pos(e) ==
  IF Has(e)
  THEN CHOOSE i \in 1..Len(trace) :
         trace[i] = e /\ \A j \in 1..(i - 1) : trace[j] # e
  ELSE 0

Last(seq) == seq[Len(seq)]

\* the positions of main() from extension loading on
ProceedPositions ==
  {"loadExtensions", "listExtensions", "rawMode", "initializeApp",
   "oauthPrefetch", "zedIntegration", "startupWarnings", "awaitKitty",
   "startInteractiveUI", "configInitialize", "readStdin", "checkInput",
   "validateNonInteractiveAuth", "runNonInteractive", "runExitCleanup",
   "exitSuccess", "returned", "rejected"}

ProceedCalls ==
  {"loadExtensions", "loadCliConfig", "startInteractiveUI", "runNonInteractive"}

AuthPrecedesSandbox ==
  /\ (Has("spawn:start_sandbox") /\ selectedType # "none" /\ ~useExternal) =>
       /\ Has("validateAuthMethod:ok")
       /\ Has("refreshAuth:resolved")
       /\ Pos("validateAuthMethod:ok") < Pos("refreshAuth:resolved")
       /\ Pos("refreshAuth:resolved") < Pos("spawn:start_sandbox")
  /\ (Has("validateAuthMethod:error") \/ Has("refreshAuth:rejected")) =>
       /\ pc = "exited"
       /\ exitCode = 1
       /\ spawnCount = 0
       /\ ~Has("spawn:start_sandbox")
       /\ stdinReads = 0
       /\ ~Has("readStdin")

AuthPrecedesSandboxWitness ==
  /\ Has("refreshAuth:rejected")
  /\ ~isTTY
  /\ sandboxConfig
  /\ pc = "exited"

\* C3: the relaunch protocol spawns a child only after the previous one has
\* exited, respawns exactly when a child exits with the reserved code, and
\* ends the process with the first other exit code: n reserved exits and
\* then c make n + 1 spawns and exit status c.
RelaunchProtocol ==
  /\ spawnCount = Len(childExits) + (IF childLive THEN 1 ELSE 0)
  /\ \A i \in 1..(Len(childExits) - 1) : childExits[i] = RELAUNCH_EXIT_CODE
  /\ (childExits # <<>> /\ Last(childExits) = RELAUNCH_EXIT_CODE) =>
       /\ pc \in {"relaunchSpawn", "relaunchWait"}
       /\ pc = "relaunchSpawn" <=> ~childLive
  /\ (childExits # <<>> /\ Last(childExits) # RELAUNCH_EXIT_CODE) =>
       /\ pc = "exited"
       /\ exitCode = Last(childExits)
       /\ spawnCount =
            Cardinality({i \in 1..Len(childExits) :
                           childExits[i] = RELAUNCH_EXIT_CODE}) + 1

RelaunchProtocolWitness ==
  /\ childExits = <<RELAUNCH_EXIT_CODE, RELAUNCH_EXIT_CODE, 5>>
  /\ spawnCount = 3
  /\ pc = "exited"
  /\ exitCode = 5
  /\ launcher = "start_sandbox"

hasPromptValue(args) ==
  \E i \in 1..(Len(args) - 1) : isPromptFlag(args[i])

\* C4: a call of injectStdinIntoArgs(args, captured) leaves args as it was
\* and returns args itself when captured is empty; otherwise, when a prompt
\* flag with a following value exists, args with only the value after the
\* first prompt flag replaced by captured, a blank line and the old value;
\* otherwise args followed by "--prompt" and captured.
InjectStdinIntoArgsCorrect ==
  [][(pc = "injectStdinIntoArgs" /\ pc' = "injectStdinIntoArgs:returned") =>
       /\ processArgv' = processArgv
       /\ stdinData = "" => sandboxArgs' = processArgv
       /\ (stdinData # "" /\ hasPromptValue(processArgv)) =>
            /\ Len(sandboxArgs') = Len(processArgv)
            /\ \E i \in 1..(Len(processArgv) - 1) :
                 /\ isPromptFlag(processArgv[i])
                 /\ \A j \in 1..(i - 1) : ~isPromptFlag(processArgv[j])
                 /\ sandboxArgs'[i + 1] = stdinData \o "\n\n" \o processArgv[i + 1]
                 /\ \A j \in 1..Len(processArgv) :
                      j # i + 1 => sandboxArgs'[j] = processArgv[j]
       /\ (stdinData # "" /\ ~hasPromptValue(processArgv)) =>
            /\ Len(sandboxArgs') = Len(processArgv) + 2
            /\ SubSeq(sandboxArgs', 1, Len(processArgv)) = processArgv
            /\ sandboxArgs'[Len(processArgv) + 1] = "--prompt"
            /\ sandboxArgs'[Len(processArgv) + 2] = stdinData
    ]_vars

InjectStdinIntoArgsWitness ==
  /\ pc = "injectStdinIntoArgs:returned"
  /\ stdinData = "ctx"
  /\ processArgv = <<"other", "--prompt", "hi">>
  /\ sandboxArgs = <<"other", "--prompt", "ctx\n\nhi">>

\* what main() has called when it reaches the flag guard of line 253
CallsBeforeFlagGuard ==
  <<"setupUnhandledRejectionHandler", "loadSettings", "migrateDeprecatedSettings",
    "cleanupCheckpoints", "randomUUID", "parseArguments">>

\* C5 as stated: with the interactive-prompt flag set and stdin not a
\* terminal, main() exits with status 1 after the message and before any
\* other side effect, settings load, migration, checkpoint cleanup and
\* argument parsing included.
FlagGuardBeforeAnySideEffect ==
  (promptInteractive /\ ~isTTY /\ pc = "exited") =>
    /\ exitCode = 1
    /\ trace = <<"console.error:prompt-interactive with piped stdin">>

\* C5 amended: with the interactive-prompt flag set and stdin not a terminal,
\* main() exits with status 1 right after the message; settings load and
\* migration, checkpoint cleanup and argument parsing have run by then, and
\* nothing after them has: no console patching, no DNS or theme set-up, no
\* sandbox configuration, no child launch.
FlagGuardBeforeLaterSteps ==
  (promptInteractive /\ ~isTTY) =>
    \/ pc = "checkPromptInteractive" /\ trace = CallsBeforeFlagGuard
    \/ /\ pc = "exited"
       /\ exitCode = 1
       /\ trace = CallsBeforeFlagGuard
                    \o <<"console.error:prompt-interactive with piped stdin">>
       /\ cleanupRegistry = <<>>
       /\ spawnCount = 0
       /\ stdinReads = 0

FlagGuardWitness ==
  /\ promptInteractive
  /\ ~isTTY
  /\ pc = "exited"
  /\ exitCode = 1

\* C6: on the non-interactive path a run whose input is empty after the
\* stdin merge prints the no-input error and exits with status 1, and
\* neither validateNonInteractiveAuth nor runNonInteractive is called in it.
NoInputFailsFast ==
  /\ Has("console.error:No input provided via stdin") =>
       /\ pc = "exited"
       /\ exitCode = 1
       /\ input = ""
       /\ ~Has("validateNonInteractiveAuth")
       /\ ~Has("validateNonInteractiveAuth:threw")
       /\ ~Has("runNonInteractive")
  /\ (input = "" /\ ~interactive
        /\ pc \notin {"startupWarnings", "configInitialize", "readStdin", "checkInput"}
        /\ Has("config.initialize") /\ ~Has("readStdin:threw")) =>
       Has("console.error:No input provided via stdin")

NoInputFailsFastWitness ==
  /\ Has("console.error:No input provided via stdin")
  /\ stdinReads = 1
  /\ stdinData = ""
  /\ pc = "exited"

\* C7: a non-interactive run with a prompt and no piped text that ends
\* successfully has called, once each and in this order,
\* validateNonInteractiveAuth, runNonInteractive with exactly the prompt,
\* runExitCleanup, and then exited with status 0; cleanup never comes before
\* the pipeline is done and exit never before cleanup.
NonInteractiveSuccessOrder ==
  /\ Has("runExitCleanup") => Has("runNonInteractive:done")
  /\ (pc = "exited" /\ Has("runNonInteractive:done")) =>
       /\ exitCode = 0
       /\ Count("validateNonInteractiveAuth") = 1
       /\ Count("runNonInteractive") = 1
       /\ Count("runExitCleanup") = 1
       /\ Pos("validateNonInteractiveAuth") < Pos("runNonInteractive")
       /\ Pos("runNonInteractive") < Pos("runNonInteractive:done")
       /\ Pos("runNonInteractive:done") < Pos("runExitCleanup")
       /\ Pos("runExitCleanup") = Len(trace)
       /\ cleanupRan = cleanupRegistry
       /\ cleanupRan # <<>>
       /\ (question # "" /\ (stdinReads = 0 \/ stdinData = "")) =>
            pipelineInput = question

NonInteractiveSuccessWitness ==
  /\ pc = "exited"
  /\ exitCode = 0
  /\ question = "hello"
  /\ pipelineInput = "hello"
  /\ stdinReads = 1
  /\ stdinData = ""
  /\ Has("runExitCleanup")

\* C8: getNodeMemoryArgs returns at most one flag: none when
\* GEMINI_CLI_NO_RELAUNCH is set; otherwise, with target the floor of half
\* the total memory in megabytes, the flag --max-old-space-size=target when
\* target exceeds the current heap limit and none when it does not.
GetNodeMemoryArgsCorrect ==
  pc = "getNodeMemoryArgs:returned" =>
    LET target == (totalmem \div 2) \div MemGranularity
    IN /\ Len(memoryArgs) <= 1
       /\ envNoRelaunch => memoryArgs = <<>>
       /\ (~envNoRelaunch /\ target * MemGranularity > heapSizeLimit) =>
            memoryArgs = <<"--max-old-space-size=" \o ToString(target)>>
       /\ (~envNoRelaunch /\ target * MemGranularity <= heapSizeLimit) =>
            memoryArgs = <<>>
       /\ (~envNoRelaunch /\ totalmem = MB(8192) /\ heapSizeLimit = MB(4096)) =>
            memoryArgs = <<>>
       /\ (~envNoRelaunch /\ totalmem = MB(16384) /\ heapSizeLimit = MB(4096)) =>
            memoryArgs = <<"--max-old-space-size=8192">>

GetNodeMemoryArgsWitness ==
  /\ pc = "getNodeMemoryArgs:returned"
  /\ ~envNoRelaunch
  /\ totalmem = MB(16384)
  /\ heapSizeLimit = MB(4096)
  /\ memoryArgs = <<"--max-old-space-size=8192">>

\* C9: a process reads stdin at most once: the capture for the sandbox
\* child and the read of the non-interactive path never both happen.
StdinReadAtMostOnce ==
  /\ stdinReads <= 1
  /\ Count("readStdin") = stdinReads

StdinReadAtMostOnceWitness ==
  /\ stdinReads = 1
  /\ stdinData = "ctx"
  /\ Has("spawn:start_sandbox")
  /\ pc = "exited"

\* C10: startInteractiveUI is called only when the keyboard detection that
\* was started has resolved, never while it is pending.
KittyResolvedBeforeUI ==
  (pc = "startInteractiveUI" \/ Has("startInteractiveUI")) => kitty # "pending"

KittyResolvedBeforeUIWitness ==
  /\ Has("startInteractiveUI")
  /\ Has("detectAndEnableKittyProtocol")
  /\ kitty = "resolved"

\* C11: whenever main() has ended the process with process.exit after a
\* cleanup callback was registered, all registered callbacks have been
\* invoked exactly once, in registration order, by runExitCleanup, on every
\* exit path.
CleanupBeforeEveryExit ==
  (pc = "exited" /\ cleanupRegistry # <<>>) =>
    /\ Has("runExitCleanup")
    /\ cleanupRan = cleanupRegistry

\* main() has come to an end: it exited, returned or threw
MainEnded == pc \in {"exited", "returned", "rejected"}

\* C12 as stated: every run of main() that is past configuration loading
\* and the list-extensions exit ends having run exactly one of the
\* interactive UI and the non-interactive pipeline, never both and never
\* neither.
ExactlyOnePathRuns ==
  (MainEnded /\ Has("loadCliConfig") /\ ~listExtensions) =>
    (Has("startInteractiveUI") <=> ~Has("runNonInteractive"))

\* C12 amended: a run of main() never both starts the interactive UI and
\* enters the non-interactive path; a run that gets to the mode test of line
\* 458 (no list-extensions exit, no Zed integration, no exception before it)
\* and ends has taken exactly one of them, the UI when config.isInteractive()
\* holds and the non-interactive path when it does not, the same answer by
\* which raw mode was enabled; the non-interactive path calls the pipeline
\* at most once, and not at all when it stops on empty input or an exception.
OnePathPerRun ==
  /\ ~(Has("startInteractiveUI")
         /\ (Has("config.initialize") \/ Has("config.initialize:threw")
               \/ Has("runNonInteractive")))
  /\ Has("startInteractiveUI") => interactive
  /\ (Has("config.initialize") \/ Has("config.initialize:threw")
        \/ Has("runNonInteractive")) => ~interactive
  /\ Has("setRawMode(true)") => interactive
  /\ Count("startInteractiveUI") <= 1
  /\ Count("runNonInteractive") <= 1
  /\ Has("runNonInteractive") => (Has("config.initialize") /\ input # "")
  /\ (MainEnded /\ Has("getUserStartupWarnings")) =>
       (Has("startInteractiveUI")
          <=> ~(Has("config.initialize") \/ Has("config.initialize:threw")))

OnePathPerRunWitness ==
  /\ pc = "returned"
  /\ Has("startInteractiveUI")
  /\ Has("setRawMode(true)")
  /\ ~zedIntegration

\* the positions of main() inside the hand-off to a child process
RelaunchPositions ==
  {"loadPartialConfig", "preSandboxAuth", "captureStdin", "launchSandbox",
   "relaunchApp", "relaunchSpawn", "relaunchWait"}

RelaunchCalls ==
  {"getNodeMemoryArgs", "loadSandboxConfig", "loadCliConfig:partial",
   "validateAuthMethod:ok", "validateAuthMethod:error", "refreshAuth:resolved",
   "refreshAuth:rejected", "relaunchOnExitCode", "relaunchAppInChildProcess",
   "spawn:start_sandbox", "spawn:app", "childExit"}

\* C13: with the SANDBOX marker set main() does nothing of the relaunch and
\* sandbox logic: no memory flags computed, no sandbox configuration loaded,
\* no partial configuration, no auth validation before a sandbox, no stdin
\* captured for injection, no child spawned; extension loading follows the
\* theme set-up directly.
SandboxMarkerSkipsRelaunch ==
  envSANDBOX =>
    /\ pc \notin RelaunchPositions
    /\ \A e \in RelaunchCalls : ~Has(e)
    /\ memoryArgs = <<>>
    /\ ~sandboxConfig
    /\ sandboxArgs = <<>>
    /\ launcher = "none"
    /\ spawnCount = 0
    /\ ~childLive
    /\ Has("readStdin") => Has("config.initialize")
    /\ Has("loadExtensions") =>
         trace[Pos("loadExtensions") - 1] = "themeManager.loadCustomThemes"

SandboxMarkerSkipsRelaunchWitness ==
  /\ envSANDBOX
  /\ Has("loadCliConfig")
  /\ autoConfigureMemory
  /\ selectedType # "none"
  /\ ~useExternal
  /\ ~isTTY

\* C14: validateDnsResolutionOrder returns "ipv4first" for "ipv4first",
\* "verbatim" for "verbatim", "ipv4first" for undefined and for any other
\* string; it warns exactly when the input is defined and is neither of the
\* two accepted values; its result is always one of the two.
ValidateDnsResolutionOrderCorrect ==
  pc = "validateDnsResolutionOrder:returned" =>
    /\ dnsResult \in {"ipv4first", "verbatim"}
    /\ dnsOrder = Defined("ipv4first") => dnsResult = "ipv4first"
    /\ dnsOrder = Defined("verbatim") => dnsResult = "verbatim"
    /\ dnsOrder = Undefined => dnsResult = "ipv4first"
    /\ (dnsOrder.defined /\ dnsOrder.value \notin {"ipv4first", "verbatim"}) =>
         dnsResult = "ipv4first"
    /\ dnsWarned <=>
         (dnsOrder.defined /\ dnsOrder.value \notin {"ipv4first", "verbatim"})
    /\ dnsWarned <=> Has("console.warn:dnsResolutionOrder")

ValidateDnsResolutionOrderWitness ==
  /\ pc = "validateDnsResolutionOrder:returned"
  /\ dnsOrder = Defined("bogus")
  /\ dnsResult = "ipv4first"
  /\ dnsWarned

\* the non-interactive path is past its read of standard input
PastNonInteractiveRead ==
  /\ Has("config.initialize")
  /\ pc # "readStdin"
  /\ ~Has("readStdin:threw")

\* C15 as stated: on the non-interactive path standard input is read only
\* when no question was supplied and stdin is not a terminal; with a
\* question supplied it is not read and the pipeline gets exactly the
\* question.
StdinReadOnlyWithoutQuestion ==
  /\ (Has("config.initialize") /\ Has("readStdin")) =>
       (question = "" /\ ~isTTY)
  /\ (Has("runNonInteractive") /\ question # "") =>
       (~Has("readStdin") /\ pipelineInput = question)

\* C15: on the non-interactive path standard input is read exactly when
\* stdin is not a terminal, whether or not a question was supplied; text
\* that was read and is not empty goes in front of the question with a blank
\* line between them, otherwise the input stays the question; the pipeline
\* gets that input.
StdinReadWhenNotTerminal ==
  /\ PastNonInteractiveRead =>
       /\ Has("readStdin") <=> ~isTTY
       /\ (Has("readStdin") /\ stdinData # "") =>
            input = stdinData \o "\n\n" \o question
       /\ (~Has("readStdin") \/ stdinData = "") => input = question
  /\ Has("runNonInteractive") => pipelineInput = input

StdinReadWhenNotTerminalWitness ==
  /\ Has("runNonInteractive")
  /\ question = "hello"
  /\ stdinData = "ctx"
  /\ pipelineInput = "ctx\n\nhello"

\* C16: whenever main() has put the terminal into raw mode the SIGINT and
\* SIGTERM handlers are installed, in the same step as raw mode; a signal
\* that arrives makes the handler set the terminal back to the mode recorded
\* before raw mode was enabled, in the one step of the handler and with the
\* process still running, and the terminal stays in that mode afterwards.
RawModeRestoredOnSignal ==
  /\ [](/\ Has("setRawMode(true)") =>
            (sigHandlers /\ ~wasRaw /\ Has("on:SIGINT") /\ Has("on:SIGTERM"))
        /\ (rawMode /\ ~wasRaw) => sigHandlers
        /\ signals > 0 => (Has("setRawMode(true)") /\ rawMode = wasRaw))
  /\ [][/\ (~sigHandlers /\ rawMode' /\ ~wasRaw') => sigHandlers'
        /\ signals' > signals =>
             (sigHandlers /\ rawMode' = wasRaw /\ pc' = pc /\ pc # "exited")]_vars

RawModeRestoredOnSignalWitness ==
  /\ signals = 1
  /\ Has("setRawMode(true)")
  /\ ~rawMode
  /\ pc = "returned"

\* resolving the input or validating the authentication threw
NonInteractiveThrew ==
  \/ Has("config.initialize:threw")
  \/ Has("readStdin:threw")
  \/ Has("validateNonInteractiveAuth:threw")

\* C17: once config.initialize, the read of standard input or
\* validateNonInteractiveAuth has thrown on the non-interactive path, the
\* pipeline is never invoked, main() has put and left the terminal in no
\* raw mode, the run is over, and when the process has ended it ended with
\* status 1 right after a message on the error stream.
NonInteractiveErrorAborts ==
  NonInteractiveThrew =>
    /\ ~Has("runNonInteractive")
    /\ ~Has("setRawMode(true)")
    /\ rawMode = wasRaw
    /\ pc \in {"rejected", "exited"}
    /\ pc = "exited" =>
         /\ exitCode = 1
         /\ Last(trace) = "console.error:An unexpected critical error occurred"

NonInteractiveErrorAbortsWitness ==
  /\ Has("validateNonInteractiveAuth:threw")
  /\ Has("readStdin")
  /\ pc = "exited"
  /\ exitCode = 1

\* main() is past the credential pre-fetch step of lines 431-439
PastPrefetchStep == Has("initializeApp") /\ pc # "oauthPrefetch"

\* C18: getOauthClient is called at most once; past the pre-fetch step it
\* has been called exactly when the Google login is the selected
\* authentication and browser launch is suppressed; and when it was needed
\* it has resolved before the interactive UI is constructed.
CredentialPrefetchBeforeUI ==
  /\ Count("getOauthClient") <= 1
  /\ PastPrefetchStep =>
       (Has("getOauthClient") <=>
          (selectedType = "LOGIN_WITH_GOOGLE" /\ browserSuppressed))
  /\ (Has("startInteractiveUI") /\ Has("getOauthClient")) =>
       /\ Has("getOauthClient:resolved")
       /\ Pos("getOauthClient:resolved") < Pos("startInteractiveUI")

CredentialPrefetchBeforeUIWitness ==
  /\ Has("startInteractiveUI")
  /\ selectedType = "LOGIN_WITH_GOOGLE"
  /\ browserSuppressed
  /\ Count("getOauthClient") = 1

\* main() is past the raw-mode step of lines 405-424
PastRawModeStep ==
  /\ Has("loadCliConfig")
  /\ ~listExtensions
  /\ pc \notin {"listExtensions", "rawMode"}

\* C19 as stated: on a proceed-mode run whose stdin is a terminal not yet in
\* raw mode, keyboard-capability detection is started before extension and
\* configuration loading has completed.
KittyDetectionOverlapsLoading ==
  /\ (PastRawModeStep /\ isTTY /\ ~wasRaw) => Has("detectAndEnableKittyProtocol")
  /\ (Has("detectAndEnableKittyProtocol") /\ Has("loadCliConfig")) =>
       Pos("detectAndEnableKittyProtocol") < Pos("loadCliConfig")

\* C19: keyboard-capability detection is started only after extension and
\* configuration loading has completed, in the step that enables raw mode,
\* and exactly when the configuration is interactive and stdin is a terminal
\* not yet in raw mode; it is in flight only while main() is past that step.
KittyDetectionAfterLoading ==
  /\ Has("detectAndEnableKittyProtocol") =>
       /\ Has("loadCliConfig")
       /\ Pos("loadCliConfig") < Pos("detectAndEnableKittyProtocol")
       /\ Pos("detectAndEnableKittyProtocol") = Pos("setRawMode(true)") + 3
  /\ PastRawModeStep =>
       (Has("detectAndEnableKittyProtocol") <=> (interactive /\ isTTY /\ ~wasRaw))
  /\ ~PastRawModeStep => ~Has("detectAndEnableKittyProtocol")
  /\ kitty = "pending" => (PastRawModeStep /\ Has("detectAndEnableKittyProtocol"))

KittyDetectionAfterLoadingWitness ==
  /\ kitty = "pending"
  /\ pc = "startupWarnings"
  /\ Has("initializeApp")

\* how many times event e was emitted on appEvents
Emitted(e) == Cardinality({i \in DOMAIN appEvents : appEvents[i].event = e})

\* C20: with the handler of setupUnhandledRejectionHandler installed, after
\* k unhandled rejections exactly k LogError events and min(k, 1)
\* OpenDebugConsole events have been emitted, the one OpenDebugConsole right
\* after the first LogError, and the process has not been ended.
UnhandledRejectionsLogged ==
  /\ Emitted("LogError") = rejections
  /\ Emitted("OpenDebugConsole") = (IF rejections >= 1 THEN 1 ELSE 0)
  /\ Len(appEvents) = Emitted("LogError") + Emitted("OpenDebugConsole")
  /\ rejections >= 1 =>
       /\ appEvents[1].event = "LogError"
       /\ appEvents[2].event = "OpenDebugConsole"
  /\ unhandledRejectionOccurred <=> rejections >= 1
  /\ rejections >= 1 => (rejectionHandler /\ pc # "exited" /\ exitCode = -1)

UnhandledRejectionsLoggedWitness ==
  /\ rejections = 3
  /\ Emitted("LogError") = 3
  /\ Emitted("OpenDebugConsole") = 1

\* main() found no SANDBOX marker and loadSandboxConfig gave no config
OnPlainRelaunchBranch ==
  /\ ~envSANDBOX
  /\ Has("loadSandboxConfig")
  /\ ~sandboxConfig

\* C22: without the SANDBOX marker and without a sandbox config main() goes
\* into relaunchAppInChildProcess and ends only after a plain child was
\* spawned; the call is given exactly the memory arguments, which are empty
\* unless settings enable memory auto-configuration, and an empty list of
\* script arguments; and the branch loads no partial configuration,
\* validates no authentication and reads no standard input.
PlainRelaunchOnlyMemoryArgs ==
  OnPlainRelaunchBranch =>
    /\ pc \in {"relaunchApp", "relaunchSpawn", "relaunchWait", "exited"}
    /\ pc # "relaunchApp" =>
         /\ Has("relaunchAppInChildProcess")
         /\ launcher = "app"
         /\ additionalNodeArgs = memoryArgs
         /\ additionalScriptArgs = <<>>
    /\ ~autoConfigureMemory => memoryArgs = <<>>
    /\ autoConfigureMemory =>
         memoryArgs = getNodeMemoryArgs(totalmem, heapSizeLimit, envNoRelaunch)
    /\ spawnCount > 0 => (Has("spawn:app") /\ ~Has("spawn:start_sandbox"))
    /\ pc = "exited" => spawnCount > 0
    /\ ~Has("loadCliConfig:partial")
    /\ ~Has("validateAuthMethod:ok") /\ ~Has("validateAuthMethod:error")
    /\ ~Has("readStdin") /\ stdinReads = 0
    /\ ~Has("relaunchOnExitCode")

PlainRelaunchOnlyMemoryArgsWitness ==
  /\ OnPlainRelaunchBranch
  /\ Has("spawn:app")
  /\ autoConfigureMemory
  /\ Len(additionalNodeArgs) = 1
  /\ Len(processArgv) > 0
  /\ ~isTTY

\* C21: startInteractiveUI renders, starts the update check, registers the
\* unmount cleanup and returns in one step, with the check still pending
\* and without process.exit; when the check or handleAutoUpdate fails the
\* catch takes it: main() stays returned, nothing is rejected or exited,
\* and the error stream gets "Update check failed" exactly when debug mode
\* is on.
UpdateCheckInBackground ==
  /\ [](/\ Has("checkForUpdates") <=> updateCheck # "none"
        /\ Has("checkForUpdates") =>
             /\ Has("render")
             /\ Pos("render") < Pos("checkForUpdates")
             /\ cleanupRegistry # <<>>
             /\ Last(cleanupRegistry) = "instance.unmount"
             /\ pc = "returned"
             /\ exitCode = -1
             /\ rejections = 0
        /\ (Has("checkForUpdates:rejected") \/ Has("handleAutoUpdate:threw")) <=>
             updateCheck = "failed"
        /\ Has("console.error:Update check failed") <=>
             (updateCheck = "failed" /\ debugMode))
  /\ [][(pc = "startInteractiveUI" /\ pc' # pc) =>
           (pc' = "returned" /\ updateCheck' = "pending")]_vars

UpdateCheckInBackgroundWitness ==
  /\ Has("handleAutoUpdate:threw")
  /\ updateCheck = "failed"
  /\ debugMode
  /\ Last(trace) = "console.error:Update check failed"
  /\ pc = "returned"

====
